---- MODULE Spec2Model ----
(***************************************************************************)
(* Open House Matchmaker: the agent recommendation and fairness engine.    *)
(*                                                                         *)
(*   backend/app/services/fairness_service.py   FairnessService            *)
(*   backend/app/ml/agent_scorer.py             AgentScoringEngine         *)
(*   backend/app/api/open_houses.py             the open-house handlers    *)
(*   backend/app/api/dashboard.py               retrain_model_task         *)
(*                                                                         *)
(* Three specifications share the module:                                  *)
(*   SpecDiv     ensure_diversity_in_recommendations applied to every      *)
(*               bounded candidate list over every bounded agent table     *)
(*   SpecEngine  the model life cycle of the engine singleton: train_model *)
(*               statement by statement, save_model, load_model,           *)
(*               score_agents, process restart                             *)
(*   Spec        the open-house handlers over the recommendation table     *)
(*                                                                         *)
(* Scores are Python floats in the source; here they are fixed-point       *)
(* integers in units of 1/Scale.                                           *)
(***************************************************************************)
EXTENDS Integers, Sequences, FiniteSets, TLC

VARIABLES
    agents,         \* the agents table: agent id -> row (NoRow: no such row)
    candidates,     \* SpecDiv: the list handed to ensure_diversity_in_recommendations
    slate,          \* SpecDiv: the list it returned
    divPc,          \* SpecDiv: "input" while the list is built, "done" after the call
    model,          \* engine: self.model
    scaler,         \* engine: self.scaler
    feature_names,  \* engine: self.feature_names
    modelFile,      \* disk: app/ml/models/agent_scorer_1.0.0.pkl
    scalerFile,     \* disk: app/ml/models/scaler_1.0.0.pkl
    trainPc,        \* position of the train_model call in flight, "idle" when none
    trainRun,       \* number of train_model calls started so far
    trainRows,      \* labelled rows the database held when the latest run started
    before,         \* engine and disk as they were when the run in flight started
    lastCall,       \* the engine call the latest step completed (NoCall when it
                    \* completed none): the engine and disk the call found (pre)
                    \* and what it returned
    openHouses,     \* the open_houses table: id -> row (NoOpenHouse: no such row)
    recs,           \* the committed agent_recommendations table, in row-id order
    bgTasks,        \* open houses whose generate_agent_recommendations task is queued
    session,        \* the generate_recommendations request in flight: its position
                    \* and its session's uncommitted view of agent_recommendations
    lastRequest,    \* the handler the latest step completed, and its outcome
    requests,       \* number of requests and background tasks started so far
    fnCall          \* SpecFn: one call of a function of the scoring pipeline: its
                    \* name (op), its arguments (arg), its result (out) once
                    \* the call was made (done)

vars == <<agents, candidates, slate, divPc, model, scaler, feature_names,
          modelFile, scalerFile, trainPc, trainRun, trainRows, before, lastCall,
          openHouses, recs, bgTasks, session, lastRequest, requests, fnCall>>

divVars == <<candidates, slate, divPc>>
engineVars == <<model, scaler, feature_names, modelFile, scalerFile,
                trainPc, trainRun, trainRows, before, lastCall>>
dbVars == <<openHouses, recs, bgTasks, session, lastRequest, requests>>

\* ------------------------------------------------------------------ bounds
NumAgents == 4
MaxOpenHouses == 2
MaxTrainRuns == 2
MaxRequests == 5
MaxFrequency == 10
MaxHosted == 18
DivScoreLevels == 2

AgentIds == 1..NumAgents
OpenHouseIds == 1..MaxOpenHouses

Scale == 100 * 100

Min(a, b) == IF a < b THEN a ELSE b
Max(a, b) == IF a > b THEN a ELSE b

\* ------------------------------------------------------------ agent table
\* A row of the agents table.  NoRow is what Query(...).first() gives for an
\* id that has no row.
NoRow == [exists |-> FALSE, experience_years |-> 0, is_active |-> FALSE,
          areas_of_expertise |-> {}, buyer_price_ranges |-> {}]
AgentRow(exp, active) ==
    [exists |-> TRUE, experience_years |-> exp, is_active |-> active,
     areas_of_expertise |-> {}, buyer_price_ranges |-> {}]

\* experience_years values on both sides of the two tier thresholds
ExperienceChoices == {1, 3, 6}

\* db.query(Agent).filter(Agent.id == agent_id).first()
QueryAgent(tbl, agent_id) == IF agent_id \in DOMAIN tbl THEN tbl[agent_id] ELSE NoRow

\* thresholds of 3 and 5 years instead of 2 and 5
get_agent_tier_from_three(agent) ==
    IF agent.experience_years < 3 THEN "junior"
    ELSE IF agent.experience_years < 5 THEN "mid"
    ELSE "senior"

get_agent_tier(agent) ==
    IF agent.experience_years < 2 THEN "junior"
    ELSE IF agent.experience_years < 5 THEN "mid"
    ELSE "senior"

\* no function call is under study
NoFnCall == [op |-> "none", arg |-> <<>>, out |-> <<>>, done |-> TRUE]

\* the entries of the ranking lists; agent_name, confidence, reasoning and
\* availability_confirmed are carried along unread by the three stages
AgentScoreDetails(agent_id, score) == [agent_id |-> agent_id, score |-> score]

\* the "rule_based or None" test of score_agents
RuleBasedMode(m) == m.kind = "rule_based" \/ m.kind = "none"

\* ------------------------------------------------------------ stored tables
\* Times are whole days.  A database handed to the engine is the record db of
\* the tables the engine queries.
NoOpenHouse == [exists |-> FALSE, listing_id |-> 0, start_time |-> 0,
                host_agent_id |-> 0, status |-> "Scheduled"]
OpenHouseRow(listing_id, start_time) ==
    [exists |-> TRUE, listing_id |-> listing_id, start_time |-> start_time,
     host_agent_id |-> 0, status |-> "Scheduled"]

\* the listings the open houses are created for (create_open_house verifies
\* that the listing exists)
Listings == [l \in {1} |-> [zip_code |-> "78701", price |-> 450]]

\* AgentRecommendation(...): was_selected takes the column default False
Recommendation(open_house_id, agent_id, score, rank) ==
    [open_house_id |-> open_house_id, agent_id |-> agent_id, score |-> score,
     rank |-> rank, was_selected |-> FALSE]

Database(agentTable, openHouseTable, recTable, performanceTable) ==
    [agents |-> agentTable, openHouses |-> openHouseTable, recs |-> recTable,
     performance |-> performanceTable]

RECURSIVE SumSeq(_)
SumSeq(numbers) ==
    IF numbers = <<>> THEN 0 ELSE Head(numbers) + SumSeq(Tail(numbers))

\* every performance row of the agent, whatever its period
RECURSIVE PerformanceOfAgent(_, _, _)
PerformanceOfAgent(tbl, agent_id, since) ==
    IF tbl = <<>> THEN <<>>
    ELSE (IF Head(tbl).agent_id = agent_id THEN <<Head(tbl)>> ELSE <<>>)
         \o PerformanceOfAgent(Tail(tbl), agent_id, since)

\* db.query(AgentPerformance).filter(agent_id == ..., period_start >= ...).all()
RECURSIVE PerformanceSince(_, _, _)
PerformanceSince(tbl, agent_id, since) ==
    IF tbl = <<>> THEN <<>>
    ELSE (IF Head(tbl).agent_id = agent_id /\ Head(tbl).period_start >= since
          THEN <<Head(tbl)>> ELSE <<>>)
         \o PerformanceSince(Tail(tbl), agent_id, since)

\* the open houses an agent hosts that start at or after a day
HostedSince(db, agent_id, since) ==
    {o \in DOMAIN db.openHouses :
        /\ db.openHouses[o].exists
        /\ db.openHouses[o].host_agent_id = agent_id
        /\ db.openHouses[o].start_time >= since}

\* --------------------------------------------------------- FeatureExtractor
\* extract_features.  Rates and the feedback score are in units of 1/Scale,
\* counts and years are plain numbers, flags are 0 or 1.
extract_features(agent_id, agent, listing, open_house_datetime, db) ==
    LET twelve_months_ago == open_house_datetime - 365
        performance == PerformanceSince(db.performance, agent_id, twelve_months_ago)
        Rows == 1..Len(performance)
        total_hosted == SumSeq([k \in Rows |-> performance[k].open_houses_hosted])
        total_attendees == SumSeq([k \in Rows |-> performance[k].total_attendees])
        total_leads == SumSeq([k \in Rows |-> performance[k].total_leads])
        total_offers == SumSeq([k \in Rows |-> performance[k].total_offers])
        rated == {k \in Rows : performance[k].average_feedback_score > 0}
        feedback_sum == SumSeq([k \in Rows |->
                                  IF k \in rated
                                  THEN performance[k].average_feedback_score ELSE 0])
        recent_activity ==
            Cardinality({o \in HostedSince(db, agent_id, open_house_datetime - 30) :
                            db.openHouses[o].status = "Completed"})
        last_30_days_hosted ==
            Cardinality(HostedSince(db, agent_id, open_house_datetime - 30))
    IN [experience_years |-> agent.experience_years,
        is_active |-> IF agent.is_active THEN 1 ELSE 0,
        total_open_houses_hosted |-> IF performance # <<>> THEN total_hosted ELSE 0,
        avg_attendees_per_event |->
            IF performance # <<>>
            THEN (total_attendees * Scale) \div Max(total_hosted, 1) ELSE 0,
        conversion_rate |->
            IF performance # <<>>
            THEN (total_leads * Scale) \div Max(total_attendees, 1) ELSE 0,
        success_rate |->
            IF performance # <<>>
            THEN (total_offers * Scale) \div Max(total_leads, 1) ELSE 0,
        average_feedback_score |->
            IF performance # <<>> /\ rated # {}
            THEN feedback_sum \div Cardinality(rated)
            ELSE 3 * Scale,
        area_familiarity |->
            IF listing.zip_code \in agent.areas_of_expertise THEN 1 ELSE 0,
        price_range_match |->
            IF \E r \in agent.buyer_price_ranges :
                   r.min <= listing.price /\ listing.price <= r.max
            THEN 1 ELSE 0,
        recent_activity |-> recent_activity,
        recent_hosting_frequency |-> last_30_days_hosted,
        experience_tier |-> IF agent.experience_years < 2 THEN 1
                            ELSE IF agent.experience_years < 5 THEN 2 ELSE 3]

\* ------------------------------------------------------------- ScoringModel
NoClamp(x) == x

Clamp01(x) == Min(Max(x, 0), Scale)

\* rule_based_score, lines 251-268
rule_based_score(features) ==
    Clamp01( (5 * Scale) \div 10
             + (features.experience_years * 2 * Scale) \div 100
             + (features.conversion_rate * 3) \div 10
             + (features.success_rate * 2) \div 10
             + (features.average_feedback_score - 3 * Scale) \div 10
             + (features.area_familiarity * 15 * Scale) \div 100
             + (features.price_range_match * Scale) \div 10
             + Min((features.recent_activity * 5 * Scale) \div 100, Scale \div 10) )

\* the adjustment without its final min/max
scorer_fairness_unclamped(score, features) ==
    LET penalised ==
            IF features.recent_hosting_frequency > 3 THEN (score * 8) \div 10
            ELSE score
    IN IF features.experience_tier = 1 /\ features.total_open_houses_hosted < 5
       THEN penalised + Scale \div 10 ELSE penalised

\* the two tests in the other order: the 0.6 multiplier is applied above 5
scorer_fairness_steepest_first(score, features) ==
    LET penalised ==
            IF features.recent_hosting_frequency > 5 THEN (score * 6) \div 10
            ELSE IF features.recent_hosting_frequency > 3 THEN (score * 8) \div 10
            ELSE score
        boosted ==
            IF features.experience_tier = 1 /\ features.total_open_houses_hosted < 5
            THEN penalised + Scale \div 10 ELSE penalised
    IN Min(Max(boosted, 0), Scale)

\* AgentScoringEngine.apply_fairness_adjustments, lines 272-284: the elif
\* branch is tested only when the frequency is not above 3
scorer_fairness_adjustments(score, features) ==
    LET penalised ==
            IF features.recent_hosting_frequency > 3 THEN (score * 8) \div 10
            ELSE IF features.recent_hosting_frequency > 5 THEN (score * 6) \div 10
            ELSE score
        boosted ==
            IF features.experience_tier = 1 /\ features.total_open_houses_hosted < 5
            THEN penalised + Scale \div 10 ELSE penalised
    IN Clamp01(boosted)

\* an insertion that puts an entry before the entries of equal score
RECURSIVE InsertBeforeEqual(_, _)
InsertBeforeEqual(sorted, x) ==
    IF sorted = <<>> THEN <<x>>
    ELSE IF Head(sorted).score > x.score
         THEN <<Head(sorted)>> \o InsertBeforeEqual(Tail(sorted), x)
         ELSE <<x>> \o sorted

\* list.sort(key=lambda x: x.score, reverse=True): stable, so entries of equal
\* score keep their order
RECURSIVE InsertByScore(_, _)
InsertByScore(sorted, x) ==
    IF sorted = <<>> THEN <<x>>
    ELSE IF Head(sorted).score >= x.score
         THEN <<Head(sorted)>> \o InsertByScore(Tail(sorted), x)
         ELSE <<x>> \o sorted

RECURSIVE SortByScoreFrom(_, _, _)
SortByScoreFrom(s, i, sorted) ==
    IF i > Len(s) THEN sorted
    ELSE SortByScoreFrom(s, i + 1, InsertByScore(sorted, s[i]))

SortByScore(s) == SortByScoreFrom(s, 1, <<>>)

\* score_agents, lines 216-247.  agent_ids is the list the caller queried;
\* mdl is self.model; predicted[a] is what the fitted regressor returns for
\* agent a's scaled feature vector.
RECURSIVE ScoreEach(_, _, _, _, _, _, _)
ScoreEach(agent_ids, i, listing, open_house_datetime, db, mdl, predicted) ==
    IF i > Len(agent_ids) THEN <<>>
    ELSE LET agent == db.agents[agent_ids[i]]
             features == extract_features(agent_ids[i], agent, listing,
                                          open_house_datetime, db)
             score == IF RuleBasedMode(mdl) THEN rule_based_score(features)
                      ELSE predicted[agent_ids[i]]
         IN <<AgentScoreDetails(agent_ids[i],
                                scorer_fairness_adjustments(score, features))>>
            \o ScoreEach(agent_ids, i + 1, listing, open_house_datetime, db, mdl, predicted)

score_agents(agent_ids, listing, open_house_datetime, db, mdl, predicted) ==
    SortByScore(ScoreEach(agent_ids, 1, listing, open_house_datetime, db, mdl, predicted))

\* --------------------------------------------------------- FairnessAdjuster
min_opportunities_per_month(tier) ==
    IF tier = "junior" THEN 2 ELSE IF tier = "mid" THEN 3 ELSE 4

max_opportunities_per_month(tier) ==
    IF tier = "junior" THEN 8 ELSE IF tier = "mid" THEN 12 ELSE 16

\* get_opportunity_counts, lines 33-61
get_opportunity_counts(agent_id, reference_date, db) ==
    LET HostedWithin(days) ==
            {o \in HostedSince(db, agent_id, reference_date - days) :
                db.openHouses[o].start_time <= reference_date}
        InWindow(o) == /\ db.openHouses[o].exists
                       /\ db.openHouses[o].start_time >= reference_date - 30
                       /\ db.openHouses[o].start_time <= reference_date
    IN [hosted_30_days |-> Cardinality(HostedWithin(30)),
        hosted_90_days |-> Cardinality(HostedWithin(90)),
        recommended_30_days |->
            Cardinality({k \in 1..Len(db.recs) :
                /\ db.recs[k].agent_id = agent_id
                /\ InWindow(db.recs[k].open_house_id)})]

\* the sum without the final min/max
FairnessScoreUnclamped(tier, counts, has_last_hosted, days_since_last) ==
    LET min_opportunities == min_opportunities_per_month(tier)
        max_opportunities == max_opportunities_per_month(tier)
        deficit_boost ==
            IF counts.hosted_30_days < min_opportunities
            THEN ((min_opportunities - counts.hosted_30_days) * 15 * Scale) \div 100
            ELSE 0
        excess_penalty ==
            IF counts.hosted_30_days > max_opportunities
            THEN ((counts.hosted_30_days - max_opportunities) * Scale) \div 10
            ELSE 0
        few_recommendations == IF counts.recommended_30_days < 5 THEN Scale \div 10 ELSE 0
        recency_boost ==
            IF has_last_hosted
            THEN IF days_since_last > 14
                 THEN Min((days_since_last * Scale) \div 100, (2 * Scale) \div 10)
                 ELSE 0
            ELSE (3 * Scale) \div 10
    IN (5 * Scale) \div 10 + deficit_boost - excess_penalty
       + few_recommendations + recency_boost

\* calculate_fairness_score, lines 68-101: the arithmetic on the tier, the
\* counts and the latest hosted open house (has_last_hosted: the query at
\* lines 88-91 found a row; days_since_last: reference date minus its start)
FairnessScoreFrom(tier, counts, has_last_hosted, days_since_last) ==
    LET min_opportunities == min_opportunities_per_month(tier)
        max_opportunities == max_opportunities_per_month(tier)
        deficit_boost ==
            IF counts.hosted_30_days < min_opportunities
            THEN ((min_opportunities - counts.hosted_30_days) * 15 * Scale) \div 100
            ELSE 0
        excess_penalty ==
            IF counts.hosted_30_days > max_opportunities
            THEN ((counts.hosted_30_days - max_opportunities) * Scale) \div 10
            ELSE 0
        few_recommendations == IF counts.recommended_30_days < 5 THEN Scale \div 10 ELSE 0
        recency_boost ==
            IF has_last_hosted
            THEN IF days_since_last > 14
                 THEN Min((days_since_last * Scale) \div 100, (2 * Scale) \div 10)
                 ELSE 0
            ELSE (3 * Scale) \div 10
    IN Clamp01((5 * Scale) \div 10 + deficit_boost - excess_penalty
               + few_recommendations + recency_boost)

\* calculate_fairness_score, lines 63-101
calculate_fairness_score(agent_id, agent, reference_date, db) ==
    LET hosted == {o \in DOMAIN db.openHouses :
                      /\ db.openHouses[o].exists
                      /\ db.openHouses[o].host_agent_id = agent_id
                      /\ db.openHouses[o].status \in {"Completed", "Scheduled"}}
        last_start == CHOOSE t \in {db.openHouses[o].start_time : o \in hosted} :
                          \A o \in hosted : db.openHouses[o].start_time <= t
    IN FairnessScoreFrom(get_agent_tier(agent),
                         get_opportunity_counts(agent_id, reference_date, db),
                         hosted # {},
                         IF hosted # {} THEN reference_date - last_start ELSE 0)

\* the loop with an even blend of score and fairness
RECURSIVE AdjustEachEven(_, _, _, _)
AdjustEachEven(agent_scores, i, reference_date, db) ==
    IF i > Len(agent_scores) THEN <<>>
    ELSE LET score_detail == agent_scores[i]
             agent == QueryAgent(db.agents, score_detail.agent_id)
             fairness_score == calculate_fairness_score(score_detail.agent_id, agent,
                                                        reference_date, db)
         IN (IF agent.exists
             THEN <<AgentScoreDetails(score_detail.agent_id,
                        (score_detail.score * 5 + fairness_score * 5) \div 10)>>
             ELSE <<>>)
            \o AdjustEachEven(agent_scores, i + 1, reference_date, db)

\* FairnessService.apply_fairness_adjustments, lines 106-147: candidates whose
\* agent has no row are dropped, the others get 70% score + 30% fairness and
\* the list is sorted again
RECURSIVE AdjustEach(_, _, _, _)
AdjustEach(agent_scores, i, reference_date, db) ==
    IF i > Len(agent_scores) THEN <<>>
    ELSE LET score_detail == agent_scores[i]
             agent == QueryAgent(db.agents, score_detail.agent_id)
             fairness_score == calculate_fairness_score(score_detail.agent_id, agent,
                                                        reference_date, db)
         IN (IF agent.exists
             THEN <<AgentScoreDetails(score_detail.agent_id,
                        (score_detail.score * 7 + fairness_score * 3) \div 10)>>
             ELSE <<>>)
            \o AdjustEach(agent_scores, i + 1, reference_date, db)

apply_fairness_adjustments(agent_scores, reference_date, db) ==
    SortByScore(AdjustEach(agent_scores, 1, reference_date, db))

\* ------------------------------------------------------- DiversitySelector
\* score_detail in diverse_recommendations: list membership by ==, which for
\* AgentScoreDetails (a pydantic model) is equality of all fields.
InList(x, s) == \E k \in 1..Len(s) : s[k] = x

\* First pass (lines 159-165): one scan, the first candidate of each tier not
\* yet used, while fewer than 3 are chosen; candidates whose agent has no row
\* are skipped.
RECURSIVE FirstPassFrom(_, _, _, _, _)
FirstPassFrom(agent_scores, tbl, i, diverse, used_tiers) ==
    IF i > Len(agent_scores) THEN diverse
    ELSE LET score_detail == agent_scores[i]
             agent == QueryAgent(tbl, score_detail.agent_id)
         IN IF agent.exists
               /\ get_agent_tier(agent) \notin used_tiers
               /\ Len(diverse) < 3
            THEN FirstPassFrom(agent_scores, tbl, i + 1, Append(diverse, score_detail),
                               used_tiers \cup {get_agent_tier(agent)})
            ELSE FirstPassFrom(agent_scores, tbl, i + 1, diverse, used_tiers)

\* mutant: the scan that ignores tiers and takes the first three candidates
FirstPassNoTiers(agent_scores, tbl) ==
    SubSeq(agent_scores, 1, Min(3, Len(agent_scores)))

\* mutant: the scan starts at the second candidate
FirstPassFromSecond(agent_scores, tbl) == FirstPassFrom(agent_scores, tbl, 2, <<>>, {})

\* mutant: the scan keeps two tier picks only
FirstPassTwoPicks(agent_scores, tbl) ==
    SubSeq(FirstPassFrom(agent_scores, tbl, 1, <<>>, {}), 1,
           Min(2, Len(FirstPassFrom(agent_scores, tbl, 1, <<>>, {}))))

FirstPass(agent_scores, tbl) == FirstPassFrom(agent_scores, tbl, 1, <<>>, {})

\* Second pass (lines 168-170): fill with the candidates not yet chosen, in
\* list order, while fewer than 3 are chosen.
RECURSIVE SecondPassFrom(_, _, _)
SecondPassFrom(agent_scores, i, diverse) ==
    IF i > Len(agent_scores) THEN diverse
    ELSE IF ~InList(agent_scores[i], diverse) /\ Len(diverse) < 3
         THEN SecondPassFrom(agent_scores, i + 1, Append(diverse, agent_scores[i]))
         ELSE SecondPassFrom(agent_scores, i + 1, diverse)

\* mutant: the fill stops one slot early (len(...) < 2)
RECURSIVE SecondPassShortFrom(_, _, _)
SecondPassShortFrom(agent_scores, i, diverse) ==
    IF i > Len(agent_scores) THEN diverse
    ELSE IF ~InList(agent_scores[i], diverse) /\ Len(diverse) < 2
         THEN SecondPassShortFrom(agent_scores, i + 1, Append(diverse, agent_scores[i]))
         ELSE SecondPassShortFrom(agent_scores, i + 1, diverse)

SecondPassShort(agent_scores, diverse) == SecondPassShortFrom(agent_scores, 1, diverse)

\* mutant: the fill without the "not in diverse_recommendations" test
RECURSIVE SecondPassNoCheckFrom(_, _, _)
SecondPassNoCheckFrom(agent_scores, i, diverse) ==
    IF i > Len(agent_scores) THEN diverse
    ELSE IF Len(diverse) < 3
         THEN SecondPassNoCheckFrom(agent_scores, i + 1, Append(diverse, agent_scores[i]))
         ELSE SecondPassNoCheckFrom(agent_scores, i + 1, diverse)

SecondPassNoCheck(agent_scores, diverse) == SecondPassNoCheckFrom(agent_scores, 1, diverse)

SecondPass(agent_scores, diverse) == SecondPassFrom(agent_scores, 1, diverse)

\* Third loop (lines 173-176): remaining_slots is computed once, before the
\* loop; i is the 0-based index of enumerate.
RECURSIVE ThirdPassFrom(_, _, _, _)
ThirdPassFrom(agent_scores, i, remaining_slots, diverse) ==
    IF i > Len(agent_scores) THEN diverse
    ELSE IF ~InList(agent_scores[i], diverse) /\ (i - 1) < remaining_slots
         THEN ThirdPassFrom(agent_scores, i + 1, remaining_slots,
                            Append(diverse, agent_scores[i]))
         ELSE ThirdPassFrom(agent_scores, i + 1, remaining_slots, diverse)

ThirdPass(agent_scores, diverse) ==
    ThirdPassFrom(agent_scores, 1, 3 - Len(diverse), diverse)

ensure_diversity_in_recommendations(agent_scores, tbl) ==
    IF Len(agent_scores) <= 3 THEN agent_scores
    ELSE LET diverse == ThirdPass(agent_scores,
                                  SecondPass(agent_scores, FirstPass(agent_scores, tbl)))
         IN SubSeq(diverse, 1, Min(3, Len(diverse)))

\* ------------------------------------------------------ AgentScoringEngine
\* The engine is the module-level singleton agent_scorer.  A fitted object is
\* known by the train_model run that fitted it: run n fits the scaler and the
\* regressor on the rows the database held at run n.
ModelVersion == "1.0.0"
Versions == {ModelVersion, "0.9.0"}

\* self.model: None, the string "rule_based", or an XGBRegressor
NoModel == [kind |-> "none", run |-> 0, fitted |-> FALSE]
RuleBasedModel == [kind |-> "rule_based", run |-> 0, fitted |-> FALSE]
Regressor(run, fitted) == [kind |-> "xgb", run |-> run, fitted |-> fitted]

\* self.scaler: StandardScaler() of __init__ is run 0, not fitted
FreshScaler == [run |-> 0]
FittedScaler(run) == [run |-> run]

\* list(X.columns) of prepare_training_data: the keys of extract_features, in
\* the order it inserts them
FeatureColumns ==
    << "experience_years", "is_active", "total_open_houses_hosted",
       "avg_attendees_per_event", "conversion_rate", "success_rate",
       "average_feedback_score", "area_familiarity", "price_range_match",
       "recent_activity", "recent_hosting_frequency", "experience_tier" >>

\* a file of the model directory: absent, present with a pickle that loads, or
\* present with content pickle.load rejects (a dump that did not finish)
AbsentFile == [state |-> "absent", model |-> NoModel, feature_names |-> <<>>, scaler |-> FreshScaler]
CorruptFile == [state |-> "corrupt", model |-> NoModel, feature_names |-> <<>>, scaler |-> FreshScaler]
PickledModel(m, names) == [state |-> "ok", model |-> m, feature_names |-> names, scaler |-> FreshScaler]
\* a dump that stores a StandardScaler() instead of the engine's scaler
PickledFreshScaler(sc) == [state |-> "ok", model |-> NoModel, feature_names |-> <<>>, scaler |-> FreshScaler]
PickledScaler(sc) == [state |-> "ok", model |-> NoModel, feature_names |-> <<>>, scaler |-> sc]

EngineState == [model |-> model, scaler |-> scaler, feature_names |-> feature_names,
                modelFile |-> modelFile, scalerFile |-> scalerFile]

Triple(st) == [model |-> st.model, scaler |-> st.scaler, feature_names |-> st.feature_names]

NoCall == [op |-> "none", ok |-> TRUE, pre |-> [model |-> NoModel, scaler |-> FreshScaler,
           feature_names |-> <<>>, modelFile |-> AbsentFile, scalerFile |-> AbsentFile],
           model_type |-> "", samples |-> 0, rows |-> 0]

\* rows: the number of labelled rows the database held (train_model only)
Call(op, ok, pre, model_type, samples) ==
    [op |-> op, ok |-> ok, pre |-> pre, model_type |-> model_type, samples |-> samples,
     rows |-> 0]

\* AgentScoringEngine.__init__ (the model directory starts empty)
EngineInit ==
    /\ model = NoModel
    /\ scaler = FreshScaler
    /\ feature_names = <<>>
    /\ modelFile = AbsentFile
    /\ scalerFile = AbsentFile
    /\ trainPc = "idle"
    /\ trainRun = 0
    /\ trainRows = 0
    /\ before = NoCall.pre
    /\ lastCall = NoCall

\* numbers of labelled rows the database may hold when a run starts
TrainRowChoices == {0, 5, 12}

\* len(X) of prepare_training_data: one dummy row stands in for no rows
TrainingFrameRows(n) == IF n = 0 THEN 1 ELSE n

\* len(X_train) of train_test_split(X, y, test_size=0.2): the test part is
\* ceil(0.2 * n) rows
TrainSplitRows(n) == n - ((n * 2 + 9) \div 10)

\* the engine's calls touch neither the agents table nor the selector's lists
EngineFrame == UNCHANGED <<agents, divVars, dbVars, fnCall>>

\* train_model, lines 172-177: prepare_training_data stores the column list in
\* self.feature_names; with fewer than 10 rows the engine is set to rule-based
\* mode and the call returns.
TrainStart(n) ==
    /\ trainPc = "idle"
    /\ trainRun < MaxTrainRuns
    /\ trainRun' = trainRun + 1
    /\ trainRows' = n
    /\ before' = EngineState
    /\ feature_names' = FeatureColumns
    /\ IF TrainingFrameRows(n) < 10
       THEN /\ model' = RuleBasedModel
            /\ trainPc' = "idle"
            /\ lastCall' = [Call("train", TRUE, EngineState, "rule_based",
                                  TrainingFrameRows(n)) EXCEPT !.rows = n]
       ELSE /\ trainPc' = "scale"
            /\ lastCall' = NoCall
            /\ UNCHANGED model
    /\ UNCHANGED <<scaler, modelFile, scalerFile>>
    /\ EngineFrame

\* prepare_training_data raises (a query fails, an outcome counter is NULL)
\* before line 146 is reached: nothing was assigned.
TrainPrepareFails ==
    /\ trainPc = "idle"
    /\ trainRun < MaxTrainRuns
    /\ trainRun' = trainRun + 1
    /\ before' = EngineState
    /\ lastCall' = Call("train_failed", FALSE, EngineState, "", 0)
    /\ UNCHANGED <<model, scaler, feature_names, modelFile, scalerFile, trainPc>>
    /\ UNCHANGED trainRows
    /\ EngineFrame

\* lines 183-184: self.scaler.fit_transform refits the engine's scaler in place
TrainFitScaler ==
    /\ trainPc = "scale"
    /\ scaler' = FittedScaler(trainRun)
    /\ trainPc' = "new"
    /\ UNCHANGED <<model, feature_names, modelFile, scalerFile, trainRun, before>>
    /\ lastCall' = NoCall
    /\ UNCHANGED trainRows
    /\ EngineFrame

\* line 195: self.model = xgb.XGBRegressor(...), not yet fitted
TrainNewRegressor ==
    /\ trainPc = "new"
    /\ model' = Regressor(trainRun, FALSE)
    /\ trainPc' = "fit"
    /\ UNCHANGED <<scaler, feature_names, modelFile, scalerFile, trainRun, before>>
    /\ lastCall' = NoCall
    /\ UNCHANGED trainRows
    /\ EngineFrame

\* lines 196-200: self.model.fit
TrainFitRegressor ==
    /\ trainPc = "fit"
    /\ model' = Regressor(trainRun, TRUE)
    /\ trainPc' = "save_model"
    /\ UNCHANGED <<scaler, feature_names, modelFile, scalerFile, trainRun, before>>
    /\ lastCall' = NoCall
    /\ UNCHANGED trainRows
    /\ EngineFrame

\* save_model, lines 323-328: the model file holds self.model and
\* self.feature_names as they are at this moment
SaveModelFile ==
    /\ trainPc = "save_model"
    /\ modelFile' = PickledModel(model, feature_names)
    /\ trainPc' = "save_scaler"
    /\ UNCHANGED <<model, scaler, feature_names, scalerFile, trainRun, before>>
    /\ lastCall' = NoCall
    /\ UNCHANGED trainRows
    /\ EngineFrame

\* save_model, lines 330-331, and the return of train_model
SaveScalerFile ==
    /\ trainPc = "save_scaler"
    /\ scalerFile' = PickledScaler(scaler)
    /\ trainPc' = "idle"
    /\ lastCall' = [Call("train", TRUE, before, "xgboost",
                          TrainSplitRows(trainRows)) EXCEPT !.rows = trainRows]
    /\ UNCHANGED <<model, scaler, feature_names, modelFile, trainRun, before>>
    /\ UNCHANGED trainRows
    /\ EngineFrame

\* The statement the run is at raises, or the run is aborted there.
\* retrain_model_task catches the exception and prints it; nothing is
\* restored.  An exception out of open(..., 'wb') leaves the file as it was;
\* one out of pickle.dump leaves the file truncated.
TrainFails(truncated) ==
    /\ trainPc \in {"scale", "new", "fit", "save_model", "save_scaler"}
    /\ trainPc' = "idle"
    /\ modelFile' = IF trainPc = "save_model" /\ truncated THEN CorruptFile ELSE modelFile
    /\ scalerFile' = IF trainPc = "save_scaler" /\ truncated THEN CorruptFile ELSE scalerFile
    /\ lastCall' = Call("train_failed", FALSE, before, "", 0)
    /\ UNCHANGED <<model, scaler, feature_names, trainRun, before>>
    /\ UNCHANGED trainRows
    /\ EngineFrame

\* score_agents, lines 221-228: the branch is chosen by self.model; the trained
\* branch reads self.feature_names, self.scaler and self.model.  Neither
\* train_model nor score_agents takes a lock, so a call made from another
\* thread finds the engine as the run in flight has left it so far.  The call
\* raises when the scaler or the regressor it reaches is not fitted.
ScoreAgentsCall ==
    /\ lastCall' = Call("score",
                        RuleBasedMode(model) \/ (model.fitted /\ scaler.run > 0),
                        EngineState,
                        IF RuleBasedMode(model) THEN "rule_based" ELSE "xgboost", 0)
    /\ UNCHANGED <<model, scaler, feature_names, modelFile, scalerFile,
                   trainPc, trainRun, before>>
    /\ UNCHANGED trainRows
    /\ EngineFrame

\* os.path.exists(model_file) and os.path.exists(scaler_file)
FilesExist(version) ==
    /\ version = ModelVersion
    /\ modelFile.state # "absent"
    /\ scalerFile.state # "absent"

\* load_model, lines 335-354.  The three assignments from the model file
\* happen before the scaler file is opened; an exception anywhere in the try
\* block is caught and the call returns False.
LoadModel(version) ==
    /\ IF FilesExist(version) /\ modelFile.state = "ok"
       THEN /\ model' = modelFile.model
            /\ feature_names' = modelFile.feature_names
            /\ scaler' = IF scalerFile.state = "ok" THEN scalerFile.scaler ELSE scaler
            /\ lastCall' = Call("load", scalerFile.state = "ok", EngineState, "", 0)
       ELSE /\ lastCall' = Call("load", FALSE, EngineState, "", 0)
            /\ UNCHANGED <<model, scaler, feature_names>>
    /\ UNCHANGED <<modelFile, scalerFile, trainPc, trainRun, before>>
    /\ UNCHANGED trainRows
    /\ EngineFrame

\* The process is started again: agent_scorer = AgentScoringEngine() at import.
\* The files stay.
Restart ==
    /\ trainPc = "idle"
    /\ model' = NoModel
    /\ scaler' = FreshScaler
    /\ feature_names' = <<>>
    /\ lastCall' = NoCall
    /\ UNCHANGED <<modelFile, scalerFile, trainPc, trainRun, before>>
    /\ UNCHANGED trainRows
    /\ EngineFrame

NextEngine ==
    \/ \E n \in TrainRowChoices : TrainStart(n)
    \/ TrainPrepareFails
    \/ TrainFitScaler
    \/ TrainNewRegressor
    \/ TrainFitRegressor
    \/ SaveModelFile
    \/ SaveScalerFile
    \/ \E truncated \in BOOLEAN : TrainFails(truncated)
    \/ ScoreAgentsCall
    \/ \E version \in Versions : LoadModel(version)
    \/ Restart

\* ----------------------------------------------------------------- handlers
\* api/open_houses.py.  Every handler and every background task is an
\* "async def" without an await, so each runs to its end before the event
\* loop starts another; a background task queued by a request runs at some
\* later turn of the loop.
StartTimeChoices == {100, 120}

\* the database a handler queries: the committed tables (the performance
\* table has no writer in the API and stays empty)
CommittedDb == Database(agents, openHouses, recs, <<>>)

\* rows of one open house, in row-id order
RECURSIVE Batch(_, _)
Batch(recTable, open_house_id) ==
    IF recTable = <<>> THEN <<>>
    ELSE (IF Head(recTable).open_house_id = open_house_id
          THEN <<Head(recTable)>> ELSE <<>>)
         \o Batch(Tail(recTable), open_house_id)

\* db.query(DBAgentRecommendation).filter(open_house_id == ...).delete(): the
\* rows that stay
RECURSIVE WithoutBatch(_, _)
WithoutBatch(recTable, open_house_id) ==
    IF recTable = <<>> THEN <<>>
    ELSE (IF Head(recTable).open_house_id # open_house_id
          THEN <<Head(recTable)>> ELSE <<>>)
         \o WithoutBatch(Tail(recTable), open_house_id)

\* db.query(DBAgent).filter(DBAgent.is_active == True).all(), ids in key order
RECURSIVE ActiveAgentIdsFrom(_, _)
ActiveAgentIdsFrom(tbl, i) ==
    IF i > NumAgents THEN <<>>
    ELSE (IF tbl[i].exists /\ tbl[i].is_active THEN <<i>> ELSE <<>>)
         \o ActiveAgentIdsFrom(tbl, i + 1)

\* final_recommendations[:3]
FirstThree(s) == SubSeq(s, 1, Min(Len(s), 3))

\* lines 163-178 and 300-315: score, adjust for fairness, pick the slate;
\* the three lists the stages return
Pipeline(agent_ids, listing, open_house_datetime, db, mdl, predicted) ==
    LET agent_scores == score_agents(agent_ids, listing, open_house_datetime, db,
                                     mdl, predicted)
        fair_scores == apply_fairness_adjustments(agent_scores, open_house_datetime, db)
    IN [agent_scores |-> agent_scores,
        fair_scores |-> fair_scores,
        final_recommendations |-> ensure_diversity_in_recommendations(fair_scores,
                                                                      db.agents)]

\* the handlers run on the engine in its initial state, where no regressor
\* is consulted
final_recommendations(open_house_id, db, mdl) ==
    LET open_house == db.openHouses[open_house_id]
    IN Pipeline(ActiveAgentIdsFrom(db.agents, 1), Listings[open_house.listing_id],
                open_house.start_time, db, mdl,
                [a \in AgentIds |-> 0]).final_recommendations

\* for rank, score_detail in enumerate(final_recommendations[:3], 1): the rows
\* the loop adds
SavedRecommendationsTwo(open_house_id, recommendations) ==
    [k \in 1..Min(Len(recommendations), 2) |->
        Recommendation(open_house_id, recommendations[k].agent_id,
                       recommendations[k].score, k)]

SavedRecommendations(open_house_id, recommendations) ==
    [k \in 1..Len(FirstThree(recommendations)) |->
        Recommendation(open_house_id, recommendations[k].agent_id,
                       recommendations[k].score, k)]

NoRequest == [op |-> "none", open_house_id |-> 0, ok |-> TRUE, step |-> "",
              prior |-> <<>>, slate |-> <<>>]
Request(op, open_house_id, ok, step, prior, recommendations) ==
    [op |-> op, open_house_id |-> open_house_id, ok |-> ok, step |-> step,
     prior |-> prior, slate |-> recommendations]

\* the request session of generate_recommendations: view is the
\* recommendations table as the open transaction sees it
IdleSession == [pc |-> "idle", open_house_id |-> 0, prior |-> <<>>, slate |-> <<>>,
                view |-> <<>>]

DbInit ==
    /\ openHouses = [o \in OpenHouseIds |-> NoOpenHouse]
    /\ recs = <<>>
    /\ bgTasks = {}
    /\ session = IdleSession
    /\ lastRequest = NoRequest
    /\ requests = 0

\* the handlers touch neither the selector's harness nor the engine
DbFrame == UNCHANGED <<agents, divVars, engineVars, fnCall>>

\* create_open_house, lines 68-93: the row gets the next id, the background
\* generation is queued
CreateOpenHouse(start_time) ==
    /\ session.pc = "idle"
    /\ requests < MaxRequests
    /\ requests' = requests + 1
    /\ \E o \in OpenHouseIds :
        /\ ~openHouses[o].exists
        /\ \A q \in OpenHouseIds : q < o => openHouses[q].exists
        /\ openHouses' = [openHouses EXCEPT ![o] = OpenHouseRow(1, start_time)]
        /\ bgTasks' = bgTasks \cup {o}
        /\ lastRequest' = Request("create", o, TRUE, "", <<>>, <<>>)
    /\ UNCHANGED <<recs, session>>
    /\ DbFrame

\* generate_agent_recommendations, lines 288-338: the rows are added to what
\* the table holds, nothing is deleted
GenerateAgentRecommendations(open_house_id) ==
    /\ session.pc = "idle"
    /\ requests < MaxRequests
    /\ requests' = requests + 1
    /\ open_house_id \in bgTasks
    /\ LET slate_ == FirstThree(final_recommendations(open_house_id, CommittedDb, model))
       IN /\ recs' = recs \o SavedRecommendations(open_house_id, slate_)
          /\ lastRequest' = Request("background", open_house_id, TRUE, "",
                                    Batch(recs, open_house_id), slate_)
    /\ bgTasks' = bgTasks \ {open_house_id}
    /\ UNCHANGED <<openHouses, session>>
    /\ DbFrame

\* generate_recommendations, lines 152-183: the slate is computed and the
\* DELETE is issued inside the request's transaction
RegenerateDelete(open_house_id) ==
    /\ session.pc = "idle"
    /\ requests < MaxRequests
    /\ requests' = requests + 1
    /\ openHouses[open_house_id].exists
    /\ session' = [pc |-> "deleted", open_house_id |-> open_house_id,
                   prior |-> Batch(recs, open_house_id),
                   slate |-> FirstThree(final_recommendations(open_house_id,
                                                              CommittedDb, model)),
                   view |-> WithoutBatch(recs, open_house_id)]
    /\ lastRequest' = NoRequest
    /\ UNCHANGED <<openHouses, recs, bgTasks>>
    /\ DbFrame

\* lines 186-194: the new rows are added to the session
RegenerateAdd ==
    /\ session.pc = "deleted"
    /\ session' = [session EXCEPT !.pc = "added",
                      !.view = @ \o SavedRecommendations(session.open_house_id,
                                                         session.slate)]
    /\ lastRequest' = NoRequest
    /\ UNCHANGED <<openHouses, recs, bgTasks>>
    /\ UNCHANGED requests
    /\ DbFrame

\* lines 196-203: the one commit publishes delete and inserts together, the
\* response carries final_recommendations[:3]
RegenerateCommit ==
    /\ session.pc = "added"
    /\ recs' = session.view
    /\ lastRequest' = Request("regenerate", session.open_house_id, TRUE, "commit",
                              session.prior, session.slate)
    /\ session' = IdleSession
    /\ UNCHANGED <<openHouses, bgTasks>>
    /\ UNCHANGED requests
    /\ DbFrame

\* a storage failure after the DELETE or after the adds: the exception leaves
\* the handler, the request's session is closed with its transaction open and
\* the transaction is rolled back
RegenerateFails ==
    /\ session.pc \in {"deleted", "added"}
    /\ lastRequest' = Request("regenerate", session.open_house_id, FALSE, session.pc,
                              session.prior, session.slate)
    /\ session' = IdleSession
    /\ UNCHANGED <<openHouses, recs, bgTasks>>
    /\ UNCHANGED requests
    /\ DbFrame

\* every row of the open house, whatever its agent
EveryRecommendation(recTable, open_house_id, agent_id) ==
    {k \in 1..Len(recTable) : recTable[k].open_house_id = open_house_id}

\* the first row of (open_house_id, agent_id), as .first() returns it
FirstRecommendation(recTable, open_house_id, agent_id) ==
    {k \in 1..Len(recTable) :
        /\ recTable[k].open_house_id = open_house_id
        /\ recTable[k].agent_id = agent_id
        /\ \A j \in 1..(k - 1) : ~(/\ recTable[j].open_house_id = open_house_id
                                   /\ recTable[j].agent_id = agent_id)}

\* update_open_house, lines 95-139, with a host_agent_id in the update
UpdateOpenHouse(open_house_id, new_agent_id) ==
    /\ session.pc = "idle"
    /\ requests < MaxRequests
    /\ requests' = requests + 1
    /\ openHouses[open_house_id].exists
    /\ LET old_agent_id == openHouses[open_house_id].host_agent_id
       IN recs' = IF old_agent_id # new_agent_id
                  THEN [k \in 1..Len(recs) |->
                          IF k \in FirstRecommendation(recs, open_house_id, new_agent_id)
                          THEN [recs[k] EXCEPT !.was_selected = TRUE]
                          ELSE recs[k]]
                  ELSE recs
    /\ openHouses' = [openHouses EXCEPT ![open_house_id].host_agent_id = new_agent_id]
    /\ lastRequest' = Request("update", open_house_id, TRUE, "", <<>>, <<>>)
    /\ UNCHANGED <<bgTasks, session>>
    /\ DbFrame

\* complete_open_house, lines 237-258
CompleteOpenHouse(open_house_id) ==
    /\ session.pc = "idle"
    /\ requests < MaxRequests
    /\ requests' = requests + 1
    /\ openHouses[open_house_id].exists
    /\ openHouses[open_house_id].status # "Completed"
    /\ openHouses' = [openHouses EXCEPT ![open_house_id].status = "Completed"]
    /\ lastRequest' = Request("complete", open_house_id, TRUE, "", <<>>, <<>>)
    /\ UNCHANGED <<recs, bgTasks, session>>
    /\ DbFrame

\* cancel_open_house, lines 141-150
CancelOpenHouse(open_house_id) ==
    /\ session.pc = "idle"
    /\ requests < MaxRequests
    /\ requests' = requests + 1
    /\ openHouses[open_house_id].exists
    /\ openHouses[open_house_id].status # "Cancelled"
    /\ openHouses' = [openHouses EXCEPT ![open_house_id].status = "Cancelled"]
    /\ lastRequest' = Request("cancel", open_house_id, TRUE, "", <<>>, <<>>)
    /\ UNCHANGED <<recs, bgTasks, session>>
    /\ DbFrame

NextDb ==
    \/ \E t \in StartTimeChoices : CreateOpenHouse(t)
    \/ \E o \in OpenHouseIds : GenerateAgentRecommendations(o)
    \/ \E o \in OpenHouseIds : RegenerateDelete(o)
    \/ RegenerateAdd
    \/ RegenerateCommit
    \/ RegenerateFails
    \/ \E o \in OpenHouseIds, a \in AgentIds : UpdateOpenHouse(o, a)
    \/ \E o \in OpenHouseIds : CompleteOpenHouse(o)
    \/ \E o \in OpenHouseIds : CancelOpenHouse(o)

\* ------------------------------------------------------------------ SpecDiv
\* ensure_diversity_in_recommendations as a pure function.  The candidate list
\* is what apply_fairness_adjustments returns: one AgentScoreDetails per agent
\* id (the ids come from one query of the agents table, whose primary key is
\* the id), ordered by score descending.  The agents table is arbitrary; an id
\* without a row exercises the "if agent:" test of the first pass.  The
\* selector reads an id only to look its row up and to compare two entries, so
\* a list over an arbitrary table is, up to renaming the ids, a list whose ids
\* increase: AddCandidate builds those.
DivScores == {k * (Scale \div 10) : k \in 1..DivScoreLevels}

AgentTables == [AgentIds -> {NoRow} \cup {AgentRow(e, TRUE) : e \in ExperienceChoices}]

\* the selector touches neither the engine nor the stored tables
DivFrame == UNCHANGED <<engineVars, dbVars, fnCall>>

DivIdle ==
    /\ candidates = <<>>
    /\ slate = <<>>
    /\ divPc = "input"

InitDiv ==
    /\ agents \in AgentTables
    /\ DivIdle
    /\ EngineInit
    /\ DbInit
    /\ fnCall = NoFnCall

AddCandidate(a, s) ==
    /\ divPc = "input"
    /\ \A k \in 1..Len(candidates) : candidates[k].agent_id < a
    /\ Len(candidates) > 0 => s <= candidates[Len(candidates)].score
    /\ candidates' = Append(candidates, AgentScoreDetails(a, s))
    /\ UNCHANGED <<agents, slate, divPc>>
    /\ DivFrame

CallEnsureDiversity ==
    /\ divPc = "input"
    /\ slate' = ensure_diversity_in_recommendations(candidates, agents)
    /\ divPc' = "done"
    /\ UNCHANGED <<agents, candidates>>
    /\ DivFrame

NextDiv ==
    \/ \E a \in AgentIds, s \in DivScores : AddCandidate(a, s)
    \/ CallEnsureDiversity

SpecDiv == InitDiv /\ [][NextDiv]_vars

\* tier of the candidate at position i, "none" when its agent has no row
TierAt(i) ==
    IF QueryAgent(agents, candidates[i].agent_id).exists
    THEN get_agent_tier(QueryAgent(agents, candidates[i].agent_id))
    ELSE "none"

CandidateTiers == {TierAt(i) : i \in 1..Len(candidates)} \ {"none"}

TierFirsts ==
    {i \in 1..Len(candidates) :
        /\ TierAt(i) # "none"
        /\ \A j \in 1..(i - 1) : TierAt(j) # TierAt(i)}

\* the m-th smallest element of a set of positions
NthOf(S, m) == CHOOSE p \in S : Cardinality({q \in S : q < p}) = m - 1

\* C10: for a score-sorted list of more than 3 candidates the slate is, in this
\* order, the first candidate of each tier in scan order, then the
\* highest-scored candidates not already chosen until 3 slots are filled.
C10_TierFirstsThenFill ==
    (divPc = "done" /\ Len(candidates) > 3) =>
        LET firsts == TierFirsts
            rest == (1..Len(candidates)) \ firsts
            nf == Cardinality(firsts)
        IN /\ Len(slate) = 3
           /\ \A m \in 1..3 :
                 slate[m] = IF m <= nf THEN candidates[NthOf(firsts, m)]
                            ELSE candidates[NthOf(rest, m - nf)]
           /\ \A m \in (nf + 1)..3 : \A p \in rest :
                 InList(candidates[p], slate) \/ candidates[p].score <= slate[m].score

\* a slate whose order is not score-descending: a lower-scored tier-first
\* precedes a higher-scored fill
C10_Witness ==
    /\ divPc = "done"
    /\ Len(candidates) > 3
    /\ Len(slate) = 3
    /\ slate[2].score < slate[3].score
    /\ \E k \in 4..Len(candidates) : slate[2] = candidates[k]

\* --------------------------------------------------------------- SpecEngine
\* the roster the engine and the handlers run over: juniors, mids and seniors
\* in turn, all active
RosterExperience(a) == IF a % 3 = 1 THEN 1 ELSE IF a % 3 = 2 THEN 3 ELSE 6

RosterFixed ==
    agents = [a \in AgentIds |-> AgentRow(RosterExperience(a), TRUE)]

InitEngine ==
    /\ EngineInit
    /\ DivIdle
    /\ RosterFixed
    /\ DbInit
    /\ fnCall = NoFnCall

SpecEngine == InitEngine /\ [][NextEngine]_vars

\* C4: a scoring call that runs the regressor uses weights, scaler and
\* feature-name list of one and the same training run: entirely the artifact
\* from before a concurrent run or entirely the one it publishes, never old
\* weights with a new scaler.
C4_ScoringUsesOneArtifact ==
    (lastCall.op = "score" /\ ~RuleBasedMode(lastCall.pre.model)
                           /\ lastCall.pre.model.fitted) =>
        /\ lastCall.pre.scaler.run = lastCall.pre.model.run
        /\ lastCall.pre.feature_names = FeatureColumns

\* C5: after a training run that failed or was aborted, the engine's model,
\* scaler and feature-name list and the two files on disk are what they were
\* when the run started.
C5_FailedRunLeavesArtifact ==
    lastCall.op = "train_failed" => EngineState = lastCall.pre

\* C6: after a call of load_model, successful or failed, model, feature_names
\* and scaler are all three the content of the requested version's files, or
\* all three what they were before the call.
C6_LoadRestoresOneUnit ==
    lastCall.op = "load" =>
        \/ Triple(EngineState) = Triple(lastCall.pre)
        \/ /\ modelFile.state = "ok" /\ scalerFile.state = "ok"
           /\ model = modelFile.model
           /\ feature_names = modelFile.feature_names
           /\ scaler = scalerFile.scaler

\* C7: a load_model call that fails (it returns False, no error reaches the
\* caller) on an engine in rule-based mode leaves the engine in rule-based
\* mode.
C7_FailedLoadKeepsRuleBased ==
    (lastCall.op = "load" /\ ~lastCall.ok /\ RuleBasedMode(lastCall.pre.model)) =>
        RuleBasedMode(model)

\* C13: for every number N < 10 of labelled rows, N = 0 included, train_model
\* raises nothing, leaves the engine in rule-based mode and returns model_type
\* "rule_based" with training_samples = N.
C13_ColdStartReportsRows ==
    (lastCall.op = "train" /\ lastCall.rows < 10) =>
        /\ lastCall.ok
        /\ RuleBasedMode(model)
        /\ lastCall.model_type = "rule_based"
        /\ lastCall.samples = lastCall.rows

\* --------------------------------------------------------------------- Spec
\* the open-house handlers over the fixed roster, the engine in its initial
\* (rule-based) state
InitDb ==
    /\ DbInit
    /\ RosterFixed
    /\ DivIdle
    /\ EngineInit
    /\ fnCall = NoFnCall

Spec == InitDb /\ [][NextDb]_vars

\* C1: whatever the order of creations, background generations and
\* regenerations, the committed batch of every open house has at most 3 rows.
C1_BatchAtMostThree ==
    \A o \in OpenHouseIds : Len(Batch(recs, o)) <= 3

\* C2: in every state the ranks of the rows committed for one open house are
\* pairwise distinct and are exactly 1..k, k the number of those rows.
C2_RanksUniqueContiguous ==
    \A o \in OpenHouseIds :
        LET batch == Batch(recs, o)
        IN /\ \A i, j \in 1..Len(batch) : i # j => batch[i].rank # batch[j].rank
           /\ {batch[i].rank : i \in 1..Len(batch)} = 1..Len(batch)

\* C3: a regeneration replaces the batch all-or-nothing.  While the request is
\* between its delete and its commit the committed batch is the prior one;
\* after a successful request the committed batch is exactly the slate the
\* response carries, ranked 1..k in slate order; after a request that failed
\* between delete and commit the committed batch is the prior one, intact.
C3_RegenerateAllOrNothing ==
    /\ session.pc # "idle" => Batch(recs, session.open_house_id) = session.prior
    /\ (lastRequest.op = "regenerate" /\ lastRequest.ok) =>
          LET batch == Batch(recs, lastRequest.open_house_id)
          IN /\ Len(batch) = Len(lastRequest.slate)
             /\ \A k \in 1..Len(batch) :
                  /\ batch[k].agent_id = lastRequest.slate[k].agent_id
                  /\ batch[k].score = lastRequest.slate[k].score
                  /\ batch[k].rank = k
    /\ (lastRequest.op = "regenerate" /\ ~lastRequest.ok) =>
          Batch(recs, lastRequest.open_house_id) = lastRequest.prior

\* C3 witness: a regeneration of an open house that had a batch of three
\* failed after it had deleted the batch and added the three new rows.
C3_Witness ==
    /\ lastRequest.op = "regenerate"
    /\ ~lastRequest.ok
    /\ lastRequest.step = "added"
    /\ Len(lastRequest.prior) = 3
    /\ Len(lastRequest.slate) = 3

\* C12: a stored recommendation changes in one way only: its was_selected
\* goes from false to true, in an update_open_house step that makes the
\* row's agent the host of the row's open house.  It never goes back to
\* false (so it is set once), and every other step leaves the stored rows as
\* they are: a background generation only adds rows, a regeneration only
\* replaces the batch of its open house by new rows.
C12_RowStep ==
    \/ recs' = recs
    \/ /\ lastRequest'.op = "background"
       /\ Len(recs') >= Len(recs)
       /\ SubSeq(recs', 1, Len(recs)) = recs
    \/ /\ lastRequest'.op = "regenerate"
       /\ WithoutBatch(recs', lastRequest'.open_house_id)
              = WithoutBatch(recs, lastRequest'.open_house_id)
    \/ /\ lastRequest'.op = "update"
       /\ Len(recs') = Len(recs)
       /\ \A k \in 1..Len(recs) :
            \/ recs'[k] = recs[k]
            \/ /\ recs'[k] = [recs[k] EXCEPT !.was_selected = TRUE]
               /\ ~recs[k].was_selected
               /\ recs[k].open_house_id = lastRequest'.open_house_id
               /\ openHouses'[recs[k].open_house_id].host_agent_id = recs[k].agent_id
               /\ openHouses[recs[k].open_house_id].host_agent_id # recs[k].agent_id

C12_WasSelectedSetOnce == [][C12_RowStep]_vars

\* C12 witness: an open house was reassigned after a recommendation of it had
\* been selected: a selected row whose agent is no longer the host.
C12_Witness ==
    /\ lastRequest.op = "update"
    /\ \E k \in 1..Len(recs) :
         /\ recs[k].was_selected
         /\ recs[k].open_house_id = lastRequest.open_house_id
         /\ openHouses[recs[k].open_house_id].host_agent_id # recs[k].agent_id
         /\ openHouses[recs[k].open_house_id].host_agent_id # 0

\* ------------------------------------------------------------------- SpecFn
\* the functions of the scoring pipeline, each applied once to arguments drawn
\* from the sets below
FnCall(op, arg) == [op |-> op, arg |-> arg, out |-> <<>>, done |-> FALSE]

FnFrame == UNCHANGED <<agents, divVars, engineVars, dbVars>>

\* feature records for rule_based_score: rates may exceed 1 (leads per
\* attendee), feedback scores are 0..5
RuleFeatures ==
    [experience_years : {0, 2, 30},
     conversion_rate : {0, Scale \div 2, 3 * Scale},
     success_rate : {0, Scale},
     average_feedback_score : {0, 3 * Scale, 5 * Scale},
     area_familiarity : {0, 1},
     price_range_match : {0, 1},
     recent_activity : {0, 1, 5}]

\* raw scores handed to the scorer's fairness adjustment: rule-based scores
\* and regressor outputs, which may leave [0,1]
RawScores == {0 - 2000, 0, 5000, 9500, Scale, 14000}

FrequencyFeatures ==
    [recent_hosting_frequency : 0..MaxFrequency,
     experience_tier : 1..3,
     total_open_houses_hosted : {0, 5}]

\* tier, counts and recency for the fairness arithmetic; a negative number of
\* days is a latest open house that starts after the reference date
FairnessInputs ==
    [tier : {"junior", "mid", "senior"},
     counts : [hosted_30_days : 0..MaxHosted, hosted_90_days : {MaxHosted},
               recommended_30_days : {0, 4, 5, 9}],
     has_last_hosted : BOOLEAN,
     days_since_last : {0 - 20, 0, 14, 15, 20, 40}]

\* databases for the functions that query: agents without a row, newcomers
\* and seniors; at most one open house, hosted by agent 1 or 2, 20 days before
\* or 20 days after the reference date; no recommendations or five of agent 1
ReferenceDates == {100}

FnAgentTables == [AgentIds -> {NoRow, AgentRow(0, TRUE), AgentRow(6, TRUE)}]

FnOpenHouseRows ==
    {NoOpenHouse}
    \cup {[OpenHouseRow(1, t) EXCEPT !.host_agent_id = h, !.status = st] :
             t \in {80, 120}, h \in {1, 2}, st \in {"Completed", "Cancelled"}}

FnOpenHouseTables ==
    {[o \in OpenHouseIds |-> IF o = 1 THEN row ELSE NoOpenHouse] : row \in FnOpenHouseRows}

FnRecTables == {<<>>, [k \in 1..5 |-> Recommendation(1, 1, 5000, 1)]}

FnDatabases ==
    {Database(a, o, r, <<>>) : a \in FnAgentTables, o \in FnOpenHouseTables,
                               r \in FnRecTables}

\* self.model and what the fitted regressor predicts for each agent,
\* outputs below 0 and above 1 included
PredictedChoices ==
    {[a \in AgentIds |-> ((sd + a * 7000) % 18000) - 4000] : sd \in {0, 5000, 9000}}

FnModes ==
    {[mdl |-> m, predicted |-> [a \in AgentIds |-> 0]] : m \in {NoModel, RuleBasedModel}}
    \cup {[mdl |-> Regressor(1, TRUE), predicted |-> p] : p \in PredictedChoices}

\* candidate lists for apply_fairness_adjustments: ids increasing, scores in
\* any order
RECURSIVE CandidateListsFrom(_)
CandidateListsFrom(a) ==
    IF a > NumAgents THEN {<<>>}
    ELSE LET rest == CandidateListsFrom(a + 1)
         IN rest \cup {<<AgentScoreDetails(a, x)>> \o l : x \in {2000, 5000}, l \in rest}

\* ensure_diversity_in_recommendations on three candidates scored 0.9, 0.8
\* and 0.6
ApplyEnsureDiversity ==
    /\ fnCall.op = "ensure_diversity_in_recommendations"
    /\ ~fnCall.done
    /\ fnCall' = [fnCall EXCEPT
                     !.out = ensure_diversity_in_recommendations(fnCall.arg.agent_scores,
                                                                 fnCall.arg.agents),
                     !.done = TRUE]
    /\ FnFrame

ApplyCalculateFairnessScore ==
    /\ fnCall.op = "calculate_fairness_score"
    /\ ~fnCall.done
    /\ fnCall' = [fnCall EXCEPT
                     !.out = calculate_fairness_score(fnCall.arg.agent_id,
                                 fnCall.arg.db.agents[fnCall.arg.agent_id],
                                 fnCall.arg.reference_date, fnCall.arg.db),
                     !.done = TRUE]
    /\ FnFrame

\* a variant that writes the blended scores into the records it was given and
\* sorts the caller's list
ApplyFairnessAdjustmentsInPlace ==
    /\ fnCall.op = "apply_fairness_adjustments"
    /\ ~fnCall.done
    /\ fnCall' = [fnCall EXCEPT
                     !.out = apply_fairness_adjustments(fnCall.arg.agent_scores,
                                 fnCall.arg.reference_date, fnCall.arg.db),
                     !.arg.agent_scores =
                         apply_fairness_adjustments(fnCall.arg.agent_scores,
                                 fnCall.arg.reference_date, fnCall.arg.db),
                     !.done = TRUE]
    /\ FnFrame

ApplyFairnessAdjustments ==
    /\ fnCall.op = "apply_fairness_adjustments"
    /\ ~fnCall.done
    /\ fnCall' = [fnCall EXCEPT
                     !.out = apply_fairness_adjustments(fnCall.arg.agent_scores,
                                 fnCall.arg.reference_date, fnCall.arg.db),
                     !.done = TRUE]
    /\ FnFrame

\* the three stages as the handlers chain them, on the active agents
ApplyPipeline ==
    /\ fnCall.op = "pipeline"
    /\ ~fnCall.done
    /\ fnCall' = [fnCall EXCEPT
                     !.out = Pipeline(fnCall.arg.agent_ids, Listings[1],
                                      fnCall.arg.reference_date, fnCall.arg.db,
                                      fnCall.arg.mdl, fnCall.arg.predicted),
                     !.done = TRUE]
    /\ FnFrame

ApplyRuleBasedScore ==
    /\ fnCall.op = "rule_based_score"
    /\ ~fnCall.done
    /\ fnCall' = [fnCall EXCEPT !.out = rule_based_score(fnCall.arg), !.done = TRUE]
    /\ FnFrame

ApplyScorerFairness ==
    /\ fnCall.op = "scorer_fairness_adjustments"
    /\ ~fnCall.done
    /\ fnCall' = [fnCall EXCEPT
                     !.out = scorer_fairness_adjustments(fnCall.arg.score,
                                                         fnCall.arg.features),
                     !.done = TRUE]
    /\ FnFrame

ApplyFairnessScoreFrom ==
    /\ fnCall.op = "fairness_score"
    /\ ~fnCall.done
    /\ fnCall' = [fnCall EXCEPT
                     !.out = FairnessScoreFrom(fnCall.arg.tier, fnCall.arg.counts,
                                               fnCall.arg.has_last_hosted,
                                               fnCall.arg.days_since_last),
                     !.done = TRUE]
    /\ FnFrame

\* inputs of extract_features: an agent of 0..MaxExperience years; one open
\* house before, at the edges of, inside or after the 30 days that end at the
\* target datetime; up to two performance rows, of the agent or of another
\* agent, inside or outside the 365 days, with zero and nonzero totals
MaxExperience == 6

AgentPerformanceRow(agent_id, period_start, totals, feedback) ==
    [agent_id |-> agent_id, period_start |-> period_start,
     open_houses_hosted |-> totals[1], total_attendees |-> totals[2],
     total_leads |-> totals[3], total_offers |-> totals[4],
     average_feedback_score |-> feedback]

FeatureTotals == {<<0, 0, 0, 0>>, <<2, 10, 5, 1>>, <<0, 10, 0, 1>>, <<2, 0, 5, 0>>}

FeaturePerformanceRows ==
    {AgentPerformanceRow(a, ps, t, fb) :
        a \in {1, 2}, ps \in {0 - 300, 50}, t \in FeatureTotals,
        fb \in {0, 2 * Scale, 4 * Scale}}

FeatureSecondRows ==
    {AgentPerformanceRow(1, ps, t, fb) :
        ps \in {50}, t \in {<<0, 0, 0, 0>>, <<2, 10, 5, 1>>}, fb \in {0, 4 * Scale}}

FeaturePerformanceTables ==
    {<<>>} \cup {<<r>> : r \in FeaturePerformanceRows}
           \cup {<<r, q>> : r \in FeaturePerformanceRows, q \in FeatureSecondRows}

FeatureOpenHouseTables ==
    {[o \in OpenHouseIds |-> NoOpenHouse]}
    \cup {[o \in OpenHouseIds |->
              IF o = 1
              THEN [OpenHouseRow(1, t) EXCEPT !.host_agent_id = h, !.status = st]
              ELSE NoOpenHouse] :
             t \in {60, 70, 80, 100, 120}, h \in {1, 2},
             st \in {"Scheduled", "Completed", "Cancelled"}}

\* extract_features for agent 1 of the table, the listing of the open house
\* and the target datetime
ApplyExtractFeatures ==
    /\ fnCall.op = "extract_features"
    /\ ~fnCall.done
    /\ fnCall' = [fnCall EXCEPT
                     !.out = extract_features(fnCall.arg.agent_id,
                                              QueryAgent(fnCall.arg.db.agents,
                                                         fnCall.arg.agent_id),
                                              Listings[1],
                                              fnCall.arg.open_house_datetime,
                                              fnCall.arg.db),
                     !.done = TRUE]
    /\ FnFrame

InitFn ==
    /\ \/ \E f \in RuleFeatures : fnCall = FnCall("rule_based_score", f)
       \/ \E y \in 0..MaxExperience, d \in ReferenceDates,
             o \in FeatureOpenHouseTables, pt \in FeaturePerformanceTables :
             fnCall = FnCall("extract_features",
                             [agent_id |-> 1, open_house_datetime |-> d,
                              db |-> Database([a \in AgentIds |-> AgentRow(y, TRUE)],
                                              o, <<>>, pt)])
       \/ \E x \in RawScores, f \in FrequencyFeatures :
             fnCall = FnCall("scorer_fairness_adjustments", [score |-> x, features |-> f])
       \/ \E i \in FairnessInputs : fnCall = FnCall("fairness_score", i)
       \/ \E a \in {1, 2}, d \in ReferenceDates, db \in FnDatabases :
             /\ db.agents[a].exists
             /\ fnCall = FnCall("calculate_fairness_score",
                                [agent_id |-> a, reference_date |-> d, db |-> db])
       \/ \E l \in CandidateListsFrom(1), d \in ReferenceDates, db \in FnDatabases :
             /\ db.recs = <<>>
             /\ db.openHouses[1].host_agent_id # 2
             /\ fnCall = FnCall("apply_fairness_adjustments",
                                [agent_scores |-> l, reference_date |-> d, db |-> db])
       \/ \E d \in ReferenceDates, db \in FnDatabases, m \in FnModes :
             fnCall = FnCall("pipeline",
                             [agent_ids |-> ActiveAgentIdsFrom(db.agents, 1),
                              reference_date |-> d, db |-> db, mdl |-> m.mdl,
                              predicted |-> m.predicted])
       \/ \E a, b, c \in AgentIds, tbl \in FnAgentTables :
             /\ a # b /\ a # c /\ b # c
             /\ fnCall = FnCall("ensure_diversity_in_recommendations",
                                [agent_scores |-> <<AgentScoreDetails(a, 9000),
                                                    AgentScoreDetails(b, 8000),
                                                    AgentScoreDetails(c, 6000)>>,
                                 agents |-> tbl])
    /\ RosterFixed
    /\ DivIdle
    /\ EngineInit
    /\ DbInit

NextFn ==
    \/ ApplyRuleBasedScore
    \/ ApplyExtractFeatures
    \/ ApplyScorerFairness
    \/ ApplyFairnessScoreFrom
    \/ ApplyCalculateFairnessScore
    \/ ApplyFairnessAdjustments
    \/ ApplyPipeline
    \/ ApplyEnsureDiversity

SpecFn == InitFn /\ [][NextFn]_vars

\* C14: for every feature record with non-negative experience, rates, flags
\* and counts and a feedback score in 0..5, rule_based_score is in [0,1].
C14_RuleBasedScoreInRange ==
    (fnCall.op = "rule_based_score" /\ fnCall.done) =>
        (0 <= fnCall.out /\ fnCall.out <= Scale)

\* C14 witness: a record whose bonuses add up to more than 1 was scored.
C14_Witness ==
    /\ fnCall.op = "rule_based_score"
    /\ fnCall.done
    /\ fnCall.arg.experience_years = 30
    /\ fnCall.arg.conversion_rate = 3 * Scale

\* C15: for every tier, every pair of hosted and recommended counts and
\* every recency of the latest hosted open house (never hosted and a start
\* after the reference date included), the fairness score is in [0,1].
C15_FairnessScoreInRange ==
    (fnCall.op \in {"fairness_score", "calculate_fairness_score"} /\ fnCall.done) =>
        (0 <= fnCall.out /\ fnCall.out <= Scale)

\* C15 witness: a junior far above the monthly maximum, whose penalty alone
\* exceeds the base score, and whose latest open house starts in the future.
C15_Witness ==
    /\ fnCall.op = "fairness_score"
    /\ fnCall.done
    /\ fnCall.arg.tier = "junior"
    /\ fnCall.arg.counts.hosted_30_days = MaxHosted
    /\ fnCall.arg.counts.recommended_30_days = 9
    /\ fnCall.arg.has_last_hosted
    /\ fnCall.arg.days_since_last < 0

\* C18: in the scorer's fairness adjustment a recent_hosting_frequency above
\* 3, however large, multiplies the score by 0.8 and by nothing else, and a
\* frequency of 3 or less leaves it as it is (seen on agents that get no
\* junior boost and on scores inside [0,1], where the final clamp is idle).
C18_OnePenaltyMultiplier ==
    (/\ fnCall.op = "scorer_fairness_adjustments"
     /\ fnCall.done
     /\ ~(/\ fnCall.arg.features.experience_tier = 1
          /\ fnCall.arg.features.total_open_houses_hosted < 5)
     /\ 0 <= fnCall.arg.score
     /\ fnCall.arg.score <= Scale) =>
        fnCall.out = IF fnCall.arg.features.recent_hosting_frequency > 3
                     THEN (fnCall.arg.score * 8) \div 10
                     ELSE fnCall.arg.score

\* C18 witness: a frequency of 10 met a positive score.
C18_Witness ==
    /\ fnCall.op = "scorer_fairness_adjustments"
    /\ fnCall.done
    /\ fnCall.arg.features.recent_hosting_frequency = 10
    /\ fnCall.arg.features.experience_tier = 3
    /\ fnCall.arg.score = 5000
    /\ fnCall.out = 4000

\* C11: three candidates scored 0.9, 0.8 and 0.6, the first two juniors and
\* the third a senior, give the slate 0.9-junior, 0.6-senior, 0.8-junior, in
\* that order.
C11_ScenarioSlateOrder ==
    (/\ fnCall.op = "ensure_diversity_in_recommendations"
     /\ fnCall.done
     /\ \A k \in 1..3 : QueryAgent(fnCall.arg.agents,
                                    fnCall.arg.agent_scores[k].agent_id).exists
     /\ get_agent_tier(QueryAgent(fnCall.arg.agents,
                                  fnCall.arg.agent_scores[1].agent_id)) = "junior"
     /\ get_agent_tier(QueryAgent(fnCall.arg.agents,
                                  fnCall.arg.agent_scores[2].agent_id)) = "junior"
     /\ get_agent_tier(QueryAgent(fnCall.arg.agents,
                                  fnCall.arg.agent_scores[3].agent_id)) = "senior") =>
        fnCall.out = <<fnCall.arg.agent_scores[1], fnCall.arg.agent_scores[3],
                       fnCall.arg.agent_scores[2]>>

\* C16: every score of a recommendation the pipeline (score_agents, then
\* apply_fairness_adjustments, then ensure_diversity_in_recommendations)
\* produces is in [0,1], in rule-based mode and with a regressor whatever it
\* predicts.
C16_PipelineScoresInRange ==
    (fnCall.op = "pipeline" /\ fnCall.done) =>
        \A k \in 1..Len(fnCall.out.final_recommendations) :
            /\ 0 <= fnCall.out.final_recommendations[k].score
            /\ fnCall.out.final_recommendations[k].score <= Scale

\* C16 witness: a slate of three from a regressor that predicted above 1 for
\* one of its agents and below 0 for another.
C16_Witness ==
    /\ fnCall.op = "pipeline"
    /\ fnCall.done
    /\ ~RuleBasedMode(fnCall.arg.mdl)
    /\ Len(fnCall.out.final_recommendations) = 3
    /\ \E i, j \in 1..3 :
         /\ fnCall.arg.predicted[fnCall.out.final_recommendations[i].agent_id] > Scale
         /\ fnCall.arg.predicted[fnCall.out.final_recommendations[j].agent_id] < 0

\* C17: an agent with 0 years of experience, no open houses and no
\* recommendations has the fairness score 0.8.
C17_NewcomerFairnessScore ==
    (/\ fnCall.op = "calculate_fairness_score"
     /\ fnCall.done
     /\ fnCall.arg.db.agents[fnCall.arg.agent_id].experience_years = 0
     /\ \A o \in OpenHouseIds : ~fnCall.arg.db.openHouses[o].exists
     /\ fnCall.arg.db.recs = <<>>) =>
        fnCall.out = (8 * Scale) \div 10

C19_HasRecord(k) ==
    QueryAgent(fnCall.arg.db.agents, fnCall.arg.agent_scores[k].agent_id).exists

C19_Blend(k) ==
    (fnCall.arg.agent_scores[k].score * 7
     + calculate_fairness_score(fnCall.arg.agent_scores[k].agent_id,
           QueryAgent(fnCall.arg.db.agents, fnCall.arg.agent_scores[k].agent_id),
           fnCall.arg.reference_date, fnCall.arg.db) * 3) \div 10

\* C19: apply_fairness_adjustments returns one entry for each candidate whose
\* agent has a record and no other entry, and the entry's score is 0.7 times
\* the candidate's score plus 0.3 times the agent's fairness score at the
\* reference date.
C19_SeventyThirtyBlend ==
    (fnCall.op = "apply_fairness_adjustments" /\ fnCall.done) =>
        /\ Len(fnCall.out) =
              Cardinality({k \in 1..Len(fnCall.arg.agent_scores) : C19_HasRecord(k)})
        /\ \A k \in 1..Len(fnCall.arg.agent_scores) :
              C19_HasRecord(k) =>
                /\ Cardinality({j \in 1..Len(fnCall.out) :
                       fnCall.out[j].agent_id = fnCall.arg.agent_scores[k].agent_id}) = 1
                /\ \A j \in 1..Len(fnCall.out) :
                       fnCall.out[j].agent_id = fnCall.arg.agent_scores[k].agent_id
                           => fnCall.out[j].score = C19_Blend(k)

\* C19 witness: a list with a candidate whose agent has no record and two
\* whose agents have one, of unequal fairness.
C19_Witness ==
    /\ fnCall.op = "apply_fairness_adjustments"
    /\ fnCall.done
    /\ Len(fnCall.arg.agent_scores) = 3
    /\ Len(fnCall.out) = 2
    /\ fnCall.out[1].score # fnCall.out[2].score
    /\ fnCall.arg.agent_scores[1].score = fnCall.arg.agent_scores[3].score
    /\ ~C19_HasRecord(2)

Descending(l) == \A i \in 1..(Len(l) - 1) : l[i].score >= l[i + 1].score

PositionOf(l, agent_id) == CHOOSE k \in 1..Len(l) : l[k].agent_id = agent_id

\* entries of equal score are in the order the input has them in
KeepsInputOrder(out, in) ==
    \A i, j \in 1..Len(out) :
        (i < j /\ out[i].score = out[j].score) =>
            PositionOf(in, out[i].agent_id) < PositionOf(in, out[j].agent_id)

\* C20: score_agents returns one entry per candidate agent, ordered by score
\* descending, and apply_fairness_adjustments returns its entries ordered by
\* adjusted score descending; in both, entries of equal score keep the order
\* of the input.
C20_StagesSortedStable ==
    /\ (fnCall.op = "pipeline" /\ fnCall.done) =>
          LET ids == [k \in 1..Len(fnCall.arg.agent_ids) |->
                         [agent_id |-> fnCall.arg.agent_ids[k]]]
          IN /\ Len(fnCall.out.agent_scores) = Len(fnCall.arg.agent_ids)
             /\ \A k \in 1..Len(ids) :
                   Cardinality({j \in 1..Len(fnCall.out.agent_scores) :
                       fnCall.out.agent_scores[j].agent_id = ids[k].agent_id}) = 1
             /\ Descending(fnCall.out.agent_scores)
             /\ KeepsInputOrder(fnCall.out.agent_scores, ids)
             /\ Descending(fnCall.out.fair_scores)
             /\ KeepsInputOrder(fnCall.out.fair_scores, fnCall.out.agent_scores)
    /\ (fnCall.op = "apply_fairness_adjustments" /\ fnCall.done) =>
          /\ Descending(fnCall.out)
          /\ KeepsInputOrder(fnCall.out, fnCall.arg.agent_scores)

\* C20 witness: both stages returned entries of equal score, and the second
\* stage changed the order of the first.
C20_Witness ==
    /\ fnCall.op = "pipeline"
    /\ fnCall.done
    /\ Len(fnCall.out.agent_scores) >= 3
    /\ \E i \in 1..(Len(fnCall.out.agent_scores) - 1) :
          fnCall.out.agent_scores[i].score = fnCall.out.agent_scores[i + 1].score
    /\ \E i \in 1..(Len(fnCall.out.fair_scores) - 1) :
          fnCall.out.fair_scores[i].score = fnCall.out.fair_scores[i + 1].score
    /\ \E i \in 1..Len(fnCall.out.fair_scores) :
          fnCall.out.fair_scores[i].agent_id # fnCall.out.agent_scores[i].agent_id

\* every candidate's agent has a row
AllCandidatesExist == \A i \in 1..Len(candidates) : TierAt(i) # "none"

\* C29: for a non-empty candidate list, sorted by score, whose agents all
\* exist, the first entry of the slate is the first candidate.
C29_RankOneIsTopCandidate ==
    (divPc = "done" /\ Len(candidates) > 0 /\ AllCandidatesExist) =>
        (Len(slate) > 0 /\ slate[1] = candidates[1])

\* C29 witness: four existing candidates went through the passes, the top
\* score strictly above the others.
C29_Witness ==
    /\ divPc = "done"
    /\ Len(candidates) = 4
    /\ AllCandidatesExist
    /\ candidates[1].score > candidates[2].score
    /\ slate[1] = candidates[1]

\* C30: for a list of more than 3 candidates whose agents all exist, every
\* tier that occurs among the candidates occurs in the slate.
C30_EveryTierInSlate ==
    (divPc = "done" /\ Len(candidates) > 3 /\ AllCandidatesExist) =>
        \A t \in CandidateTiers :
            \E k \in 1..Len(slate) :
                get_agent_tier(QueryAgent(agents, slate[k].agent_id)) = t

\* C30 witness: three tiers among four candidates, the third tier only at the
\* last, lowest-scored candidate, which is in the slate.
C30_Witness ==
    /\ divPc = "done"
    /\ Len(candidates) = 4
    /\ AllCandidatesExist
    /\ Cardinality(CandidateTiers) = 3
    /\ TierAt(1) = TierAt(2)
    /\ candidates[4].score < candidates[3].score
    /\ slate[3] = candidates[4]

\* C27: whatever hosts were assigned and reassigned and whatever was
\* regenerated, at most one stored recommendation of an open house has
\* was_selected = true.
C27_AtMostOneSelected ==
    \A o \in OpenHouseIds :
        Cardinality({k \in 1..Len(recs) :
                        recs[k].open_house_id = o /\ recs[k].was_selected}) <= 1

\* C28: whenever an open house has host agent a and a recommendation for a
\* is stored for it, that recommendation has was_selected = true.
C28_HostRecommendationSelected ==
    \A k \in 1..Len(recs) :
        (/\ openHouses[recs[k].open_house_id].exists
         /\ openHouses[recs[k].open_house_id].host_agent_id = recs[k].agent_id) =>
            recs[k].was_selected

\* ---------------------------------------------------------------------------
\* Saving and loading the model files (SpecEngine)
\* ---------------------------------------------------------------------------

\* the two files hold exactly the engine's model, feature names and scaler
FilesHoldEngine ==
    /\ modelFile.state = "ok" /\ scalerFile.state = "ok"
    /\ modelFile.model = model
    /\ modelFile.feature_names = feature_names
    /\ scalerFile.scaler = scaler

LastTrainingTooSmall == trainRun > 0 /\ TrainingFrameRows(trainRows) < 10

\* C26: after any sequence of train_model and load_model calls, score_agents
\* uses the rule-based formula exactly when the engine holds no trained model
\* or the most recent training had fewer than 10 rows.  Stated for calls made
\* while no training run is in flight and the model directory holds the two
\* files of a finished save.
C26_RuleBasedExactlyWhenCold ==
    (lastCall.op = "score" /\ trainPc = "idle"
     /\ (modelFile.state = "ok" => scalerFile.state = "ok")) =>
        ((lastCall.model_type = "rule_based")
            <=> (RuleBasedMode(lastCall.pre.model) \/ LastTrainingTooSmall))

\* ---------------------------------------------------------------------------
\* Feature extraction (SpecFn)
\* ---------------------------------------------------------------------------

ExtractDone == fnCall.op = "extract_features" /\ fnCall.done

ExtractAgent == QueryAgent(fnCall.arg.db.agents, fnCall.arg.agent_id)

TierOfNumber(n) == IF n = 1 THEN "junior" ELSE IF n = 2 THEN "mid" ELSE "senior"

\* C21: for every experience_years >= 0 the tier of get_agent_tier is junior
\* below 2, mid from 2 to below 5 and senior from 5 on, and the numeric
\* experience_tier of extract_features (1, 2, 3) denotes the same tier.
C21_TiersAgree ==
    ExtractDone =>
        LET y == ExtractAgent.experience_years
        IN /\ get_agent_tier(ExtractAgent)
                = (IF y < 2 THEN "junior" ELSE IF y < 5 THEN "mid" ELSE "senior")
           /\ fnCall.out.experience_tier \in {1, 2, 3}
           /\ TierOfNumber(fnCall.out.experience_tier) = get_agent_tier(ExtractAgent)

\* C21 witness: an agent with exactly 2 years is mid in both functions.
C21_Witness ==
    /\ ExtractDone
    /\ ExtractAgent.experience_years = 2
    /\ fnCall.out.experience_tier = 2
    /\ get_agent_tier(ExtractAgent) = "mid"

\* the agent's open houses that start in the 30 days ending at the target
OpenHousesInWindow ==
    {o \in OpenHouseIds :
        /\ fnCall.arg.db.openHouses[o].exists
        /\ fnCall.arg.db.openHouses[o].host_agent_id = fnCall.arg.agent_id
        /\ fnCall.arg.db.openHouses[o].start_time >= fnCall.arg.open_house_datetime - 30
        /\ fnCall.arg.db.openHouses[o].start_time <= fnCall.arg.open_house_datetime}

\* C22: recent_activity is the number of the agent's Completed open houses
\* that start in the 30 days ending at the target datetime, and
\* recent_hosting_frequency the number of the agent's open houses of any
\* status in that window; open houses that start after the target datetime
\* change neither count.
C22_WindowEndsAtTarget ==
    ExtractDone =>
        /\ fnCall.out.recent_activity
              = Cardinality({o \in OpenHousesInWindow :
                                fnCall.arg.db.openHouses[o].status = "Completed"})
        /\ fnCall.out.recent_hosting_frequency = Cardinality(OpenHousesInWindow)

\* the positions of the performance rows of the agent whose period starts in
\* the 365 days before the target datetime
RecentRows ==
    {k \in 1..Len(fnCall.arg.db.performance) :
        /\ fnCall.arg.db.performance[k].agent_id = fnCall.arg.agent_id
        /\ fnCall.arg.db.performance[k].period_start
              >= fnCall.arg.open_house_datetime - 365}

RECURSIVE FieldTotal(_, _)
FieldTotal(rows, field) ==
    IF rows = {} THEN 0
    ELSE LET k == CHOOSE k \in rows : TRUE
         IN fnCall.arg.db.performance[k][field] + FieldTotal(rows \ {k}, field)

AllFeatureKeys ==
    {"experience_years", "is_active", "total_open_houses_hosted",
     "avg_attendees_per_event", "conversion_rate", "success_rate",
     "average_feedback_score", "area_familiarity", "price_range_match",
     "recent_activity", "recent_hosting_frequency", "experience_tier"}

StageCalls ==
    {"pipeline", "apply_fairness_adjustments", "ensure_diversity_in_recommendations"}

C25_StageStep ==
    (fnCall.op \in StageCalls /\ ~fnCall.done /\ fnCall'.done) =>
        /\ fnCall'.arg = fnCall.arg
        /\ UNCHANGED <<model, scaler, feature_names, modelFile, scalerFile>>
        /\ UNCHANGED <<agents, openHouses, recs>>

====
